---- MODULE Spec2Model ----
(***************************************************************************)
(* Model of allensdk/brain_observatory/behavior/swdb/                      *)
(* save_extended_stimulus_presentations_df.py: the helpers time_from_last  *)
(* and find_change, and the column derivation of                           *)
(* get_extended_stimulus_presentations; and of create_utils and           *)
(* Utils.nearest_neuron_sampling_rate of allensdk/model/biophysical/       *)
(* utils.py.                                                               *)
(*                                                                         *)
(* numpy arrays are 0-based; they are modelled as TLA+ sequences, so the   *)
(* python index i is the sequence index i + 1.  Timestamps are modelled as *)
(* integers, a float NaN as the record NaN.  A raised python exception is  *)
(* modelled by the err field of a result (or the err variable).            *)
(***************************************************************************)
EXTENDS Integers, Sequences, FiniteSets, TLC

\* ---- bounds of the model ----
MaxLen == 6
NumImages == 4
MaxTime == 3
MaxEvents == 3
MaxFlashes == 2
MaxIdxLen == 3
MaxEvLen == 2
MaxLicks == 2
MaxRewards == 1
MaxSamples == 3
MaxSpeed == 2
MaxHz == 128
MaxErr == 2
MaxCmStep == 2
MaxA2 == 1
MaxSweeps == 1

VARIABLES
    pc,                      \* position in the code
    err,                     \* exception raised by the derivation, or "none"
    image_index,             \* intermediate_df['image_index']
    change,                  \* intermediate_df['change']
    omitted,                 \* intermediate_df['omitted']
    block_index,             \* intermediate_df['block_index']
    image_block_repetition,  \* intermediate_df['image_block_repetition']
    session,                 \* the session object the derivation reads
    df,                      \* the other columns of intermediate_df
    args,                    \* arguments of a helper called on its own
    ret                      \* what that helper returned or raised

vars == <<pc, err, image_index, change, omitted, block_index,
          image_block_repetition, session, df, args, ret>>

\* ---- inputs ----
\* image_name and image_index are in one-to-one correspondence; both are
\* modelled by one integer whose order is the sort order of the names
\* (groupby('image_name') iterates in sorted order).
Images == 0..(NumImages - 1)

\* the image whose image_name is 'omitted'
OmittedName == NumImages - 1

Times == 0..MaxTime

SeqsUpTo(S, n) == UNION {[1..k -> S] : k \in 0..n}

IsAscending(s) == \A i \in 1..(Len(s) - 1) : s[i] <= s[i + 1]

\* ---- results of a call ----
Ok(v) == [err |-> "none", value |-> v]

Raise(e) == [err |-> e, value |-> <<>>]

\* ---- floats ----
NaN == [nan |-> TRUE, v |-> 0]

Num(x) == [nan |-> FALSE, v |-> x]

\* ---- numpy ----
Range(s) == {s[i] : i \in 1..Len(s)}

RECURSIVE SortedSeq(_)
SortedSeq(S) ==
    IF S = {} THEN <<>>
    ELSE LET m == CHOOSE x \in S : \A y \in S : x <= y
         IN  <<m>> \o SortedSeq(S \ {m})

\* np.unique: the sorted distinct values
np_unique(s) == SortedSeq(Range(s))

\* np.diff(a) != 0
np_diff_ne(a) == [i \in 1..(Len(a) - 1) |-> a[i + 1] # a[i]]

RECURSIVE flatnonzero_from(_, _)
flatnonzero_from(b, i) ==
    IF i > Len(b) THEN <<>>
    ELSE (IF b[i] THEN <<i - 1>> ELSE <<>>) \o flatnonzero_from(b, i + 1)

\* np.flatnonzero: the python indices of the true entries, ascending
flatnonzero(b) == flatnonzero_from(b, 1)

\* np.searchsorted(a, v, side): the insertion point of v in the sorted a
searchsorted(a, v, side) ==
    IF side = "left"
    THEN Cardinality({k \in 1..Len(a) : a[k] < v})
    ELSE Cardinality({k \in 1..Len(a) : a[k] <= v})

\* a python index into an array of length n is valid when -n <= i < n
InBounds(n, inds) == \A k \in 1..Len(inds) : inds[k] < n /\ inds[k] >= 0 - n

\* the sequence index of the python index i (negative indices wrap)
PyIndex(n, i) == IF i < 0 THEN n + i + 1 ELSE i + 1

\* arr[inds] = False
SetFalseAt(arr, inds) ==
    [i \in 1..Len(arr) |->
        IF \E k \in 1..Len(inds) : PyIndex(Len(arr), inds[k]) = i
        THEN FALSE ELSE arr[i]]

\* ---- time_from_last (lines 13-20) ----
\* np.searchsorted(a=other_times, v=flash_times) - 1
last_other_index_right(flash_times, other_times) ==
    [k \in 1..Len(flash_times) |->
        searchsorted(other_times, flash_times[k], "right") - 1]

last_other_index(flash_times, other_times) ==
    [k \in 1..Len(flash_times) |->
        searchsorted(other_times, flash_times[k], "left") - 1]

\* time_from_last_other[last_other_index==-1]=np.nan
mask_no_prior_keep(time_from_last_other, last_index) ==
    time_from_last_other

mask_no_prior(time_from_last_other, last_index) ==
    [k \in 1..Len(time_from_last_other) |->
        IF last_index[k] = -1 THEN NaN ELSE time_from_last_other[k]]

time_from_last(flash_times, other_times) ==
    LET last_index == last_other_index(flash_times, other_times)
        n == Len(other_times)
    IN  IF ~InBounds(n, last_index)
        THEN Raise("IndexError")
        ELSE Ok(mask_no_prior(
                 [k \in 1..Len(flash_times) |->
                     Num(flash_times[k]
                         - other_times[PyIndex(n, last_index[k])])],
                 last_index))

\* ---- find_change (lines 26-33) ----
\* np.concatenate([np.array([False]), change])
first_flash_last(d) == d \o <<FALSE>>

first_flash_not_a_change(d) == <<FALSE>> \o d

\* omitted_inds + 1
after_omitted_same(omitted_inds) == omitted_inds

after_omitted(omitted_inds) ==
    [k \in 1..Len(omitted_inds) |-> omitted_inds[k] + 1]

is_omitted(image_idx, omitted_index) ==
    [i \in 1..Len(image_idx) |-> image_idx[i] = omitted_index]

find_change(image_idx, omitted_index) ==
    LET change0 == first_flash_not_a_change(np_diff_ne(image_idx))
        omitted_inds == flatnonzero(is_omitted(image_idx, omitted_index))
        next_inds == after_omitted(omitted_inds)
    IN  IF ~InBounds(Len(change0), omitted_inds)
        THEN Raise("IndexError")
        ELSE IF ~InBounds(Len(change0), next_inds)
        THEN Raise("IndexError")
        ELSE Ok(SetFalseAt(SetFalseAt(change0, omitted_inds), next_inds))

\* ---- get_extended_stimulus_presentations ----
\* lines 63-64: changes_including_first[0] = True
first_not_forced(changes) == changes

changes_including_first(changes) ==
    [i \in 1..Len(changes) |-> IF i = 1 THEN TRUE ELSE changes[i]]

\* lines 65-67
block_inds_left(changes) ==
    LET change_indices == flatnonzero(changes_including_first(changes))
    IN  [i \in 1..Len(changes) |->
            searchsorted(change_indices, i - 1, "left") - 1]

block_inds(changes) ==
    LET change_indices == flatnonzero(changes_including_first(changes))
    IN  [i \in 1..Len(changes) |->
            searchsorted(change_indices, i - 1, "right") - 1]

\* line 72: np.unique(group['block_index']) of the rows of one image
blocks_per_image(image_idx, block_idx, image_name) ==
    SortedSeq({block_idx[i] : i \in {j \in 1..Len(image_idx) :
                                          image_idx[j] = image_name}})

\* lines 77-79: the inner loop, from the k-th block of the image on
RECURSIVE renumber_blocks(_, _, _)
renumber_blocks(rep, image_blocks, k) ==
    IF k > Len(image_blocks) THEN rep
    ELSE renumber_blocks(
             [i \in 1..Len(rep) |->
                 IF rep[i] = image_blocks[k] THEN k - 1 ELSE rep[i]],
             image_blocks, k + 1)

\* lines 75-79: the outer loop, from the n-th image name on
RECURSIVE renumber_images(_, _, _, _, _)
renumber_images(rep, image_idx, block_idx, names, n) ==
    IF n > Len(names) THEN rep
    ELSE renumber_images(
             IF names[n] # OmittedName
             THEN renumber_blocks(rep,
                      blocks_per_image(image_idx, block_idx, names[n]), 1)
             ELSE rep,
             image_idx, block_idx, names, n + 1)

\* lines 72-79
block_repetition_number_omitted_kept(image_idx, block_idx) ==
    LET rep == renumber_images(block_idx, image_idx, block_idx,
                               np_unique(image_idx), 1)
    IN  [i \in 1..Len(image_idx) |->
            IF image_idx[i] = OmittedName THEN block_idx[i] ELSE rep[i]]

block_repetition_number(image_idx, block_idx) ==
    renumber_images(block_idx, image_idx, block_idx,
                    np_unique(image_idx), 1)

\* ---- pandas objects ----
\* DataFrame.copy() (line 37): the copy is a new object
df_copy_alias(ref) == ref

df_copy(ref) == "intermediate_df"

\* intermediate_df[name] = ... : the table object ref gets the columns; the
\* session's table gets them only when ref is that very object
assign_columns(sess, ref, names) ==
    IF ref = "session.stimulus_presentations"
    THEN [sess EXCEPT !.columns = @ \cup names]
    ELSE sess

\* the columns of session.stimulus_presentations that the derivation reads
InputColumns == {"start_time", "stop_time", "image_name", "image_index"}

\* line 43: change_times[~np.isnan(change_times)]
not_nan(change_times) ==
    LET keep(x) == ~x.nan
        kept == SelectSeq(change_times, keep)
    IN  [k \in 1..Len(kept) |-> kept[k].v]

\* ---- index_within_block (lines 83-93) ----
\* the rows of one group of groupby('block_index'), in table order
rows_of_block(block_idx, b) ==
    SortedSeq({p \in 1..Len(block_idx) : block_idx[p] = b})

\* lines 89-91: the counter after a row
next_repeat_every_row(repeat, row_is_omitted) == repeat + 1

next_repeat(repeat, row_is_omitted) ==
    IF row_is_omitted THEN repeat ELSE repeat + 1

\* lines 88-91: the inner loop, from the k-th row of the group on
RECURSIVE scan_block(_, _, _, _, _, _)
scan_block(acc, rows, k, repeat, image_idx, labels) ==
    IF acc.err # "none" \/ k > Len(rows) THEN acc
    ELSE LET p == rows[k]
             row_is_omitted == image_idx[p] = OmittedName
             n == Len(acc.value)
         IN  scan_block(
                 IF row_is_omitted THEN acc
                 ELSE IF ~InBounds(n, <<labels[p]>>) THEN Raise("IndexError")
                 ELSE Ok([acc.value EXCEPT
                              ![PyIndex(n, labels[p])] = Num(repeat)]),
                 rows, k + 1, next_repeat(repeat, row_is_omitted),
                 image_idx, labels)

\* lines 86-91: the outer loop, from the g-th group on
RECURSIVE scan_groups(_, _, _, _, _, _)
scan_groups(acc, groups, g, image_idx, block_idx, labels) ==
    IF acc.err # "none" \/ g > Len(groups) THEN acc
    ELSE scan_groups(
             scan_block(acc, rows_of_block(block_idx, groups[g]), 1, 0,
                        image_idx, labels),
             groups, g + 1, image_idx, block_idx, labels)

\* lines 84-91
repeat_number(image_idx, block_idx, labels) ==
    IF Len(labels) = 0 THEN Raise("IndexError")
    ELSE IF labels[1] # 0 THEN Raise("AssertionError")
    ELSE scan_groups(Ok([p \in 1..Len(image_idx) |-> NaN]),
                     np_unique(block_idx), 1, image_idx, block_idx, labels)

\* ---- events on each flash (lines 95-100) ----
\* 0.75 s, in the time unit of the model (a quarter of a second)
FlashWindow == 3

in_flash_window_from_start(t, start_time) ==
    t >= start_time /\ t < start_time + FlashWindow

in_flash_window_to_end(t, start_time) ==
    t > start_time /\ t <= start_time + FlashWindow

in_flash_window(t, start_time) ==
    t > start_time /\ t < start_time + FlashWindow

events_each_flash(start_times, event_times) ==
    [p \in 1..Len(start_times) |->
        LET in_window(t) == in_flash_window(t, start_times[p])
        IN  SelectSeq(event_times, in_window)]

\* ---- trace_average (lines 22-24) ----
RECURSIVE SeqSum(_)
SeqSum(s) == IF s = <<>> THEN 0 ELSE Head(s) + SeqSum(Tail(s))

Abs(x) == IF x < 0 THEN 0 - x ELSE x

RECURSIVE Gcd(_, _)
Gcd(a, b) == IF b = 0 THEN a ELSE Gcd(b, a % b)

\* a quotient of two integers, in lowest terms
Frac(num, den) ==
    LET g == Gcd(Abs(num), den)
    IN  [nan |-> FALSE, num |-> num \div g, den |-> den \div g]

NaNFrac == [nan |-> TRUE, num |-> 0, den |-> 1]

\* ndarray.mean(): NaN for an empty array
mean(values) ==
    IF values = <<>> THEN NaNFrac ELSE Frac(SeqSum(values), Len(values))

\* line 23: (timestamps >= start_time) & (timestamps < stop_time)
in_range_closed(t, start_time, stop_time) ==
    t >= start_time /\ t <= stop_time

in_range(t, start_time, stop_time) ==
    t >= start_time /\ t < stop_time

RECURSIVE values_this_range(_, _, _, _, _)
values_this_range(values, timestamps, start_time, stop_time, i) ==
    IF i > Len(values) THEN <<>>
    ELSE (IF in_range(timestamps[i], start_time, stop_time)
          THEN <<values[i]>> ELSE <<>>)
         \o values_this_range(values, timestamps, start_time, stop_time, i + 1)

trace_average(values, timestamps, start_time, stop_time) ==
    mean(values_this_range(values, timestamps, start_time, stop_time, 1))

\* ---- the derivation, one step per section of the code ----
NoColumns ==
    [ref |-> "none",
     time_from_last_lick |-> <<>>,
     time_from_last_reward |-> <<>>,
     time_from_last_change |-> <<>>,
     index_within_block |-> <<>>,
     licks_each_flash |-> <<>>,
     rewards_each_flash |-> <<>>,
     flash_running_speed |-> <<>>]

\* a session around a table of n rows: one lick, one reward and one change
\* before the first flash, flashes one time unit apart and one long
DefaultSession(n) ==
    [index |-> [p \in 1..n |-> p - 1],
     start_time |-> [p \in 1..n |-> p],
     stop_time |-> [p \in 1..n |-> p + 1],
     columns |-> InputColumns,
     licks |-> <<0>>,
     rewards |-> <<0>>,
     change_time |-> <<Num(0)>>,
     running_values |-> <<1, 2>>,
     running_timestamps |-> <<1, 2>>]

InitDerivation ==
    /\ pc = "times"
    /\ err = "none"
    /\ change = <<>>
    /\ omitted = <<>>
    /\ block_index = <<>>
    /\ image_block_repetition = <<>>
    /\ df = NoColumns
    /\ args = <<>>
    /\ ret = <<>>

Init ==
    /\ InitDerivation
    /\ image_index \in SeqsUpTo(Images, MaxLen)
    /\ session = DefaultSession(Len(image_index))

\* lines 37-52
TimesFromLast ==
    /\ pc = "times"
    /\ LET ref == df_copy("session.stimulus_presentations")
           flash_times == session.start_time
           l == time_from_last(flash_times, session.licks)
           r == time_from_last(flash_times, session.rewards)
           c == time_from_last(flash_times, not_nan(session.change_time))
       IN  IF l.err # "none" \/ r.err # "none" \/ c.err # "none"
           THEN /\ err' = "IndexError"
                /\ pc' = "raised"
                /\ df' = [df EXCEPT !.ref = ref]
                /\ UNCHANGED session
           ELSE /\ df' = [df EXCEPT !.ref = ref,
                                    !.time_from_last_lick = l.value,
                                    !.time_from_last_reward = r.value,
                                    !.time_from_last_change = c.value]
                /\ session' = assign_columns(session, ref,
                                  {"time_from_last_lick",
                                   "time_from_last_reward",
                                   "time_from_last_change"})
                /\ pc' = "changes"
                /\ UNCHANGED err
    /\ UNCHANGED <<image_index, change, omitted, block_index,
                   image_block_repetition, args, ret>>

\* lines 54-60
Changes ==
    /\ pc = "changes"
    /\ IF OmittedName \notin Range(image_index)
       THEN /\ err' = "KeyError"
            /\ pc' = "raised"
            /\ UNCHANGED <<change, omitted, session>>
       ELSE LET r == find_change(image_index, OmittedName)
            IN  IF r.err # "none"
                THEN /\ err' = r.err
                     /\ pc' = "raised"
                     /\ UNCHANGED <<change, omitted, session>>
                ELSE /\ change' = r.value
                     /\ omitted' = is_omitted(image_index, OmittedName)
                     /\ session' = assign_columns(session, df.ref,
                                       {"change", "omitted"})
                     /\ pc' = "blocks"
                     /\ UNCHANGED err
    /\ UNCHANGED <<image_index, block_index, image_block_repetition, df,
                   args, ret>>

\* lines 62-69
Blocks ==
    /\ pc = "blocks"
    /\ block_index' = block_inds(change)
    /\ session' = assign_columns(session, df.ref, {"block_index"})
    /\ pc' = "repetition"
    /\ UNCHANGED <<err, image_index, change, omitted,
                   image_block_repetition, df, args, ret>>

\* lines 71-81
Repetition ==
    /\ pc = "repetition"
    /\ image_block_repetition' =
           block_repetition_number(image_index, block_index)
    /\ session' = assign_columns(session, df.ref, {"image_block_repetition"})
    /\ pc' = "within_block"
    /\ UNCHANGED <<err, image_index, change, omitted, block_index, df,
                   args, ret>>

\* lines 83-93
WithinBlock ==
    /\ pc = "within_block"
    /\ LET r == repeat_number(image_index, block_index, session.index)
       IN  IF r.err # "none"
           THEN /\ err' = r.err
                /\ pc' = "raised"
                /\ UNCHANGED <<df, session>>
           ELSE /\ df' = [df EXCEPT !.index_within_block = r.value]
                /\ session' = assign_columns(session, df.ref,
                                  {"index_within_block"})
                /\ pc' = "events"
                /\ UNCHANGED err
    /\ UNCHANGED <<image_index, change, omitted, block_index,
                   image_block_repetition, args, ret>>

\* lines 95-100
EventsEachFlash ==
    /\ pc = "events"
    /\ df' = [df EXCEPT
                 !.licks_each_flash =
                     events_each_flash(session.start_time, session.licks),
                 !.rewards_each_flash =
                     events_each_flash(session.start_time, session.rewards)]
    /\ session' = assign_columns(session, df.ref,
                      {"licks_each_flash", "rewards_each_flash"})
    /\ pc' = "running"
    /\ UNCHANGED <<err, image_index, change, omitted, block_index,
                   image_block_repetition, args, ret>>

\* lines 102-126
RunningSpeed ==
    /\ pc = "running"
    /\ df' = [df EXCEPT
                 !.flash_running_speed =
                     [p \in 1..Len(session.start_time) |->
                         trace_average(session.running_values,
                                       session.running_timestamps,
                                       session.start_time[p],
                                       session.stop_time[p])]]
    /\ session' = assign_columns(session, df.ref, {"flash_running_speed"})
    /\ pc' = "done"
    /\ UNCHANGED <<err, image_index, change, omitted, block_index,
                   image_block_repetition, args, ret>>

Next ==
    \/ TimesFromLast
    \/ Changes
    \/ Blocks
    \/ Repetition
    \/ WithinBlock
    \/ EventsEachFlash
    \/ RunningSpeed

Spec == Init /\ [][Next]_vars

\* ---- the derivation on tables with any row index ----
\* the row indexes of n rows: distinct labels in any order, with or without
\* a gap
RowIndexes(n) ==
    {labels \in [1..n -> 0..n] :
        \A i, j \in 1..n : labels[i] = labels[j] => i = j}

InitIdx ==
    /\ InitDerivation
    /\ image_index \in SeqsUpTo(Images, MaxIdxLen)
    /\ \E labels \in RowIndexes(Len(image_index)) :
           session = [DefaultSession(Len(image_index)) EXCEPT !.index = labels]

SpecIdx == InitIdx /\ [][Next]_vars

\* ---- the derivation on sessions with any events ----
AscendingUpTo(n) == {s \in SeqsUpTo(Times, n) : IsAscending(s)}

\* session.trials['change_time']: NaN for a trial without a change
ChangeTimeColumns == {<<NaN>>, <<Num(0)>>, <<NaN, Num(0)>>}

\* the flashes of a table start one after the other
IsStrictlyAscending(s) == \A i \in 1..(Len(s) - 1) : s[i] < s[i + 1]

\* the tables here show one image and omissions
InitEv ==
    /\ InitDerivation
    /\ image_index \in SeqsUpTo({0, OmittedName}, MaxEvLen)
    /\ \E starts \in {s \in [1..Len(image_index) -> Times] :
                          IsStrictlyAscending(s)},
          licks \in AscendingUpTo(MaxLicks),
          rewards \in AscendingUpTo(MaxRewards),
          trials \in ChangeTimeColumns :
           session = [DefaultSession(Len(image_index)) EXCEPT
                          !.start_time = starts,
                          !.stop_time = [p \in 1..Len(starts) |-> starts[p] + 1],
                          !.licks = licks,
                          !.rewards = rewards,
                          !.change_time = trials]

SpecEv == InitEv /\ [][Next]_vars

\* ---- find_change called on its own ----
InitFC ==
    /\ pc = "call"
    /\ err = "none"
    /\ image_index = <<>>
    /\ change = <<>>
    /\ omitted = <<>>
    /\ block_index = <<>>
    /\ image_block_repetition = <<>>
    /\ session = <<>>
    /\ df = <<>>
    /\ args \in [image_index : SeqsUpTo(Images, MaxLen),
                 omitted_index : Images]
    /\ ret = <<>>

CallFindChange ==
    /\ pc = "call"
    /\ ret' = find_change(args.image_index, args.omitted_index)
    /\ pc' = "return"
    /\ UNCHANGED <<err, image_index, change, omitted, block_index,
                   image_block_repetition, session, df, args>>

NextFC == CallFindChange

SpecFC == InitFC /\ [][NextFC]_vars

\* ---- time_from_last called on its own ----
InitTFL ==
    /\ pc = "call"
    /\ err = "none"
    /\ image_index = <<>>
    /\ change = <<>>
    /\ omitted = <<>>
    /\ block_index = <<>>
    /\ image_block_repetition = <<>>
    /\ session = <<>>
    /\ df = <<>>
    /\ args \in [flash_times : SeqsUpTo(Times, MaxFlashes),
                 other_times : {s \in SeqsUpTo(Times, MaxEvents) :
                                    IsAscending(s)}]
    /\ ret = <<>>

CallTimeFromLast ==
    /\ pc = "call"
    /\ ret' = time_from_last(args.flash_times, args.other_times)
    /\ pc' = "return"
    /\ UNCHANGED <<err, image_index, change, omitted, block_index,
                   image_block_repetition, session, df, args>>

NextTFL == CallTimeFromLast

SpecTFL == InitTFL /\ [][NextTFL]_vars

\* ---- trace_average called on its own ----
Speeds == 0..MaxSpeed

InitTA ==
    /\ pc = "call"
    /\ err = "none"
    /\ image_index = <<>>
    /\ change = <<>>
    /\ omitted = <<>>
    /\ block_index = <<>>
    /\ image_block_repetition = <<>>
    /\ session = <<>>
    /\ df = <<>>
    /\ \E n \in 0..MaxSamples :
           args \in [values : [1..n -> Speeds],
                     timestamps : {s \in [1..n -> Times] : IsAscending(s)},
                     start_time : Times,
                     stop_time : Times]
    /\ ret = <<>>

CallTraceAverage ==
    /\ pc = "call"
    /\ ret' = Ok(trace_average(args.values, args.timestamps,
                               args.start_time, args.stop_time))
    /\ pc' = "return"
    /\ UNCHANGED <<err, image_index, change, omitted, block_index,
                   image_block_repetition, session, df, args>>

NextTA == CallTraceAverage

SpecTA == InitTA /\ [][NextTA]_vars

\* ---- allensdk/model/biophysical/utils.py ----
PERISOMATIC_TYPE == "Biophysical - perisomatic"

ALL_ACTIVE_TYPE == "Biophysical - all active"

\* create_utils (lines 53-82).  description.model_type is
\* description.data['biophys'][0]['model_type'], "absent" when the key is
\* missing; description.has_axon_type says whether
\* description.data['biophys'][1] has the key 'axon_type'.
create_utils(description, model_type) ==
    LET inferred ==
            IF model_type # "None" THEN model_type
            ELSE IF description.model_type = "absent" THEN "None"
            ELSE description.model_type
    IN  IF ~description.has_axon_type THEN Raise("KeyError")
        ELSE IF inferred = PERISOMATIC_TYPE THEN Ok("Utils")
        ELSE IF inferred = ALL_ACTIVE_TYPE THEN Ok("AllActiveUtils")
        ELSE Ok("None")

\* the default of the parameter target_hz
TargetHz == 40000

\* fractions.gcd
RECURSIVE gcd(_, _)
gcd(a, b) == IF b = 0 THEN a ELSE gcd(b, a % b)

\* Utils.nearest_neuron_sampling_rate (lines 349-353); div divides hz, so
\* the quotient is exact
nearest_neuron_sampling_rate_no_div(hz, target_hz) == hz * target_hz

nearest_neuron_sampling_rate(hz, target_hz) ==
    LET div == gcd(hz, target_hz)
    IN  (hz * target_hz) \div div

ModelTypes == {PERISOMATIC_TYPE, ALL_ACTIVE_TYPE, "other"}

InitUtils ==
    /\ pc = "call"
    /\ err = "none"
    /\ image_index = <<>>
    /\ change = <<>>
    /\ omitted = <<>>
    /\ block_index = <<>>
    /\ image_block_repetition = <<>>
    /\ session = <<>>
    /\ df = <<>>
    /\ \/ args \in [fn : {"create_utils"},
                    model_type : ModelTypes \cup {"None"},
                    description : [model_type : ModelTypes \cup {"absent"},
                                   has_axon_type : BOOLEAN]]
       \/ args \in [fn : {"nearest_neuron_sampling_rate"}, hz : 1..MaxHz]
    /\ ret = <<>>

CallCreateUtils ==
    /\ pc = "call"
    /\ args.fn = "create_utils"
    /\ ret' = create_utils(args.description, args.model_type)
    /\ pc' = "return"
    /\ UNCHANGED <<err, image_index, change, omitted, block_index,
                   image_block_repetition, session, df, args>>

\* read_stimulus, line 260
CallNearestNeuronSamplingRate ==
    /\ pc = "call"
    /\ args.fn = "nearest_neuron_sampling_rate"
    /\ ret' = Ok(nearest_neuron_sampling_rate(args.hz, TargetHz))
    /\ pc' = "return"
    /\ UNCHANGED <<err, image_index, change, omitted, block_index,
                   image_block_repetition, session, df, args>>

NextUtils == CallCreateUtils \/ CallNearestNeuronSamplingRate

SpecUtils == InitUtils /\ [][NextUtils]_vars

\* ======================= run_passive_fit =======================
\* The three fits are what the fitting subprocesses wrote to fit_1_file,
\* fit_2_file and fit_3_file (lines 43-64): records of floats, here integers.
Errs == 0..MaxErr

\* Cm values around one value, in steps of a tenth of it, and zero
Cms == {0} \cup {10 + k : k \in 0..MaxCmStep}

Fits == [err : Errs, Cm : Cms, Ri : {100}, A1 : {1}, A2 : 0..MaxA2]

\* line 79: abs(cm_rel_delta) > 0.1, cm_rel_delta being the quotient of line 67
cm_rel_delta_exceeds(fit_1, fit_3) ==
    10 * Abs(fit_1.Cm - fit_3.Cm) > Abs(fit_1.Cm)

\* line 68
fixed_ri_better_or_equal(fit_2, fit_1) == fit_2.err <= fit_1.err

fixed_ri_better(fit_2, fit_1) == fit_2.err < fit_1.err

\* lines 67-95: the key of the fit that fit_for_next_step refers to.  The
\* quotient of line 67 divides by fit_1's Cm; line 82 adds a string and a
\* number, which raises TypeError before the choice of lines 86-93 is made.
select_fit(d) ==
    IF d.fit_1.Cm = 0 THEN Raise("ZeroDivisionError")
    ELSE IF fixed_ri_better(d.fit_2, d.fit_1)
         THEN IF d.fit_2.err < d.fit_3.err THEN Ok("fit_2") ELSE Ok("fit_3")
    ELSE IF cm_rel_delta_exceeds(d.fit_1, d.fit_3) THEN Raise("TypeError")
    ELSE Ok("fit_1")

\* lines 97-106
passive_params(fit, is_spiny) ==
    IF is_spiny
    THEN IF fit.A2 = 0
         THEN Raise("ZeroDivisionError")
         ELSE Ok([ra |-> fit.Ri,
                  cm1 |-> Frac(1, 1),
                  cm2 |-> Frac(fit.Cm * (fit.A1 + fit.A2) - fit.A1, fit.A2)])
    ELSE Ok([ra |-> fit.Ri, cm1 |-> Frac(fit.Cm, 1), cm2 |-> Frac(fit.Cm, 1)])

\* lines 110-115
default_params(is_spiny) ==
    [ra |-> 100,
     cm1 |-> Frac(1, 1),
     cm2 |-> IF is_spiny THEN Frac(2, 1) ELSE Frac(1, 1)]

\* lines 28-121: the returned passive_fit_data; fit_for_next_step holds the
\* key of the fit it refers to
run_passive_fit(a) ==
    IF a.cap_check_sweeps > 0
    THEN LET d == [bridge |-> "bridge_avg", escape_time |-> "escape_t",
                   fit_1 |-> a.fit_1, fit_2 |-> a.fit_2, fit_3 |-> a.fit_3]
             chosen == select_fit(d)
         IN  IF chosen.err # "none" THEN chosen
             ELSE LET params == passive_params(d[chosen.value], a.is_spiny)
                  IN  IF params.err # "none" THEN params
                      ELSE Ok([bridge |-> d.bridge,
                               escape_time |-> d.escape_time,
                               fit_1 |-> d.fit_1,
                               fit_2 |-> d.fit_2,
                               fit_3 |-> d.fit_3,
                               fit_for_next_step |-> chosen.value,
                               ra |-> params.value.ra,
                               cm1 |-> params.value.cm1,
                               cm2 |-> params.value.cm2])
    ELSE Ok(default_params(a.is_spiny))

InitPF ==
    /\ pc = "call"
    /\ err = "none"
    /\ image_index = <<>>
    /\ change = <<>>
    /\ omitted = <<>>
    /\ block_index = <<>>
    /\ image_block_repetition = <<>>
    /\ session = <<>>
    /\ df = <<>>
    /\ \/ args \in [is_spiny : BOOLEAN, cap_check_sweeps : 1..MaxSweeps,
                    fit_1 : Fits, fit_2 : Fits, fit_3 : Fits]
       \/ args \in [is_spiny : BOOLEAN, cap_check_sweeps : {0}]
    /\ ret = <<>>

CallRunPassiveFit ==
    /\ pc = "call"
    /\ ret' = run_passive_fit(args)
    /\ pc' = "return"
    /\ UNCHANGED <<err, image_index, change, omitted, block_index,
                   image_block_repetition, session, df, args>>

NextPF == CallRunPassiveFit

SpecPF == InitPF /\ [][NextPF]_vars

\* ======================= properties =======================
Rows == 1..Len(image_index)

ChangesComputed ==
    pc \in {"blocks", "repetition", "within_block", "events", "running", "done"}

BlocksComputed ==
    pc \in {"repetition", "within_block", "events", "running", "done"}

\* the blocks in which image im occurs
BlocksOf(im) == {block_index[j] : j \in {i \in Rows : image_index[i] = im}}

\* every block shows one image (omitted rows aside)
OneImagePerBlock ==
    \A i, j \in Rows :
        (/\ block_index[i] = block_index[j]
         /\ image_index[i] # OmittedName
         /\ image_index[j] # OmittedName) => image_index[i] = image_index[j]

\* C1: the image_block_repetition of a non-omitted row is the zero-based
\* ordinal of its block among the blocks that contain the same image, in the
\* order the blocks appear (blocks A,B,A give 0,0,1).  Stated here for the
\* tables in which every block shows one image.
C1_RepetitionIsOrdinalAmongImageBlocks ==
    (pc = "done" /\ OneImagePerBlock) =>
        \A r \in Rows :
            image_index[r] # OmittedName =>
                image_block_repetition[r] =
                    Cardinality({b \in BlocksOf(image_index[r]) :
                                     b < block_index[r]})

\* C2: for every image_index sequence of length N, also one that ends with
\* the omitted image, find_change returns a sequence of length N and does not
\* fail on the index after the last row.  Stated here for N >= 1.
C2_FindChangeReturnsSameLength ==
    (pc = "return" /\ Len(args.image_index) >= 1) =>
        /\ ret.err = "none"
        /\ Len(ret.value) = Len(args.image_index)

\* C3: change[i] is true exactly when i > 0, image_index[i] differs from
\* image_index[i-1] and neither row i nor row i-1 is omitted; change[0] is
\* false.
C3_ChangeIffGenuineDifference ==
    (pc = "return" /\ ret.err = "none") =>
        \A i \in 1..Len(args.image_index) :
            ret.value[i] =
                (/\ i > 1
                 /\ args.image_index[i] # args.image_index[i - 1]
                 /\ args.image_index[i] # args.omitted_index
                 /\ args.image_index[i - 1] # args.omitted_index)

\* a returned change array whose row 1 differs from row 0, both shown, and
\* whose row 2 is omitted and differs from row 1
C3_Witness ==
    /\ pc = "return"
    /\ ret.err = "none"
    /\ Len(args.image_index) >= 4
    /\ args.image_index[1] # args.omitted_index
    /\ args.image_index[2] # args.omitted_index
    /\ args.image_index[2] # args.image_index[1]
    /\ args.image_index[3] = args.omitted_index
    /\ ret.value[2]
    /\ ~ret.value[3]

\* C4: find_change marks neither an omitted row nor the row right after an
\* omitted row as a change, even when that row's image differs from the image
\* two rows earlier.
C4_NoChangeAtOrAfterOmitted ==
    (pc = "return" /\ ret.err = "none") =>
        \A i \in 1..Len(args.image_index) :
            /\ args.image_index[i] = args.omitted_index => ~ret.value[i]
            /\ (i > 1 /\ args.image_index[i - 1] = args.omitted_index)
                   => ~ret.value[i]

\* a returned change array for A, OMIT, B with B different from A
C4_Witness ==
    /\ pc = "return"
    /\ ret.err = "none"
    /\ \E i \in 3..Len(args.image_index) :
           /\ args.image_index[i - 1] = args.omitted_index
           /\ args.image_index[i] # args.omitted_index
           /\ args.image_index[i - 2] # args.omitted_index
           /\ args.image_index[i] # args.image_index[i - 2]
           /\ ~ret.value[i]
           /\ ~ret.value[i - 1]

IsExample(s) ==
    \E A, B, C \in Images \ {OmittedName} :
        /\ A # B
        /\ B # C
        /\ A # C
        /\ s = <<A, A, B, OmittedName, B, C>>

\* C5: for image_index [A, A, B, OMIT, B, C] the derivation gives
\* change = [F, F, T, F, F, T] and block_index = [0, 0, 1, 1, 1, 2].
C5_Example ==
    IsExample(image_index) =>
        /\ pc # "raised"
        /\ ChangesComputed =>
               change = <<FALSE, FALSE, TRUE, FALSE, FALSE, TRUE>>
        /\ BlocksComputed => block_index = <<0, 0, 1, 1, 1, 2>>

C5_Witness ==
    /\ IsExample(image_index)
    /\ pc = "done"
    /\ block_index[6] = 2

\* ---- time_from_last ----
Flashes == 1..Len(args.flash_times)

Events == Range(args.other_times)

\* result k is q minus the largest event strictly before q
IsTimeFromLastPrior(k) ==
    /\ ~ret.value[k].nan
    /\ \E e \in Events :
           /\ e < args.flash_times[k]
           /\ \A f \in Events : f < args.flash_times[k] => f <= e
           /\ ret.value[k].v = args.flash_times[k] - e

\* C6 as stated: for every query time q greater than OR EQUAL to some event,
\* the result is q minus the largest event strictly less than q.
C6_Original ==
    (pc = "return" /\ ret.err = "none") =>
        \A k \in Flashes :
            (\E e \in Events : args.flash_times[k] >= e)
                => IsTimeFromLastPrior(k)

\* C6 amended: for every query time q strictly greater than some event, the
\* result is q minus the largest event strictly less than q; an event exactly
\* at q is not counted as prior.
C6_TimeFromLastStrictlyPrior ==
    (pc = "return" /\ ret.err = "none") =>
        \A k \in Flashes :
            (\E e \in Events : args.flash_times[k] > e)
                => IsTimeFromLastPrior(k)

\* a query time with an event exactly at it and an earlier event
C6_Witness ==
    /\ pc = "return"
    /\ ret.err = "none"
    /\ \E k \in Flashes :
           /\ args.flash_times[k] \in Events
           /\ \E e \in Events : e < args.flash_times[k]
           /\ ~ret.value[k].nan
           /\ ret.value[k].v > 0

\* C7: with an empty event array time_from_last returns a sequence as long
\* as the query array whose entries are all missing, and raises no error.
C7_EmptyEventsAllMissing ==
    (pc = "return" /\ args.other_times = <<>>) =>
        /\ ret.err = "none"
        /\ Len(ret.value) = Len(args.flash_times)
        /\ \A k \in Flashes : ret.value[k].nan

\* C8: for a non-empty ascending event array and a query time smaller than
\* every event, the result is missing.
C8_BeforeAllEventsIsMissing ==
    (pc = "return" /\ args.other_times # <<>>) =>
        /\ ret.err = "none"
        /\ \A k \in Flashes :
               (\A e \in Events : args.flash_times[k] < e)
                   => ret.value[k] = NaN

C8_Witness ==
    /\ pc = "return"
    /\ Len(args.other_times) >= 2
    /\ \E k \in Flashes :
           /\ \A e \in Events : args.flash_times[k] < e
           /\ ret.value[k].nan

\* ---- block_index ----
\* row r starts a block: it is row 0 or its change flag is true
IsBlockStart(r) == r = 1 \/ change[r]

\* C9 as stated: block_index is non-decreasing and increases by exactly one
\* at the row immediately FOLLOWING a true change flag (row 0 forced true),
\* and at no other row.
C9_Original ==
    BlocksComputed =>
        \A r \in Rows \ {1} :
            block_index[r] - block_index[r - 1] =
                (IF IsBlockStart(r - 1) THEN 1 ELSE 0)

\* C9 amended: block_index is non-decreasing and increases by exactly one at
\* every row after row 0 whose own change flag is true, and at no other row.
C9_BlockIndexStepsAtChangeRows ==
    BlocksComputed =>
        \A r \in Rows \ {1} :
            block_index[r] - block_index[r - 1] =
                (IF change[r] THEN 1 ELSE 0)

\* a table with a change row followed by a row that is not a change
C9_Witness ==
    /\ BlocksComputed
    /\ \E r \in Rows \ {1} :
           /\ r + 1 \in Rows
           /\ change[r]
           /\ ~change[r + 1]
           /\ block_index[r] = block_index[r - 1] + 1
           /\ block_index[r + 1] = block_index[r]

\* C10: block_index[r] is the number of block-start rows (row 0 and every
\* change row) at index <= r, minus one; so block_index[0] = 0 and every
\* block_index is >= 0.
C10_BlockIndexCountsBlockStarts ==
    BlocksComputed =>
        /\ \A r \in Rows :
               /\ block_index[r] =
                      Cardinality({j \in 1..r : IsBlockStart(j)}) - 1
               /\ block_index[r] >= 0
        /\ block_index[1] = 0

\* a table with at least three blocks whose row 0 is not flagged a change
C10_Witness ==
    /\ BlocksComputed
    /\ ~change[1]
    /\ \E r \in Rows : block_index[r] >= 2

\* ---- image_block_repetition of omitted rows ----
RepetitionComputed == pc \in {"within_block", "events", "running", "done"}

\* C11 as stated: the image_block_repetition of every omitted row is the
\* row's raw block_index.
C11_Original ==
    RepetitionComputed =>
        \A r \in Rows :
            image_index[r] = OmittedName =>
                image_block_repetition[r] = block_index[r]

\* C11 amended: an omitted row is renumbered together with its block: its
\* image_block_repetition is that of the shown rows of its block, of which
\* there is at least one.
C11_OmittedRenumberedWithBlock ==
    RepetitionComputed =>
        \A r \in Rows :
            image_index[r] = OmittedName =>
                /\ \E q \in Rows :
                       /\ image_index[q] # OmittedName
                       /\ block_index[q] = block_index[r]
                /\ \A q \in Rows :
                       block_index[q] = block_index[r] =>
                           image_block_repetition[q] = image_block_repetition[r]

\* an omitted row in block 1 whose repetition number is 0
C11_Witness ==
    /\ RepetitionComputed
    /\ \E r \in Rows :
           /\ image_index[r] = OmittedName
           /\ block_index[r] = 1
           /\ image_block_repetition[r] = 0

\* ---- index_within_block ----
WithinBlockComputed == pc \in {"events", "running", "done"}

IsContiguousIndex == session.index = [p \in 1..Len(image_index) |-> p - 1]

\* the shown rows of the block of row r that come before row r
ShownBefore(r) ==
    {q \in 1..(r - 1) : /\ block_index[q] = block_index[r]
                        /\ image_index[q] # OmittedName}

\* C12: within every block the index_within_block of the shown rows, in row
\* order, is 0, 1, 2, ...; that of an omitted row is missing and an omitted
\* row does not advance the counter.
C12_IndexWithinBlockCountsShownRows ==
    (WithinBlockComputed /\ IsContiguousIndex) =>
        \A r \in Rows :
            df.index_within_block[r] =
                (IF image_index[r] = OmittedName
                 THEN NaN
                 ELSE Num(Cardinality(ShownBefore(r))))

\* a block with a shown row, an omitted row and a shown row numbered 0, -, 1
C12_Witness ==
    /\ WithinBlockComputed
    /\ IsContiguousIndex
    /\ \E r \in Rows :
           /\ r + 2 \in Rows
           /\ block_index[r] >= 1
           /\ df.index_within_block[r] = Num(0)
           /\ df.index_within_block[r + 1] = NaN
           /\ df.index_within_block[r + 2] = Num(1)

\* ---- licks_each_flash, rewards_each_flash ----
EventsComputed == pc \in {"running", "done"}

\* how often t occurs in the sequence s
Count(s, t) == Cardinality({k \in 1..Len(s) : s[k] = t})

EventTimes == Range(session.licks) \cup Range(session.rewards)

\* C13 as stated: the events of a row are the timestamps t with
\* start_time <= t < start_time + 0.75; an event exactly at start_time is
\* included.
C13_Original ==
    EventsComputed =>
        \A p \in Rows :
            \A t \in EventTimes :
                LET inside == /\ session.start_time[p] <= t
                              /\ t < session.start_time[p] + FlashWindow
                IN  /\ Count(df.licks_each_flash[p], t) =
                           (IF inside THEN Count(session.licks, t) ELSE 0)
                    /\ Count(df.rewards_each_flash[p], t) =
                           (IF inside THEN Count(session.rewards, t) ELSE 0)

\* C13 amended: the events of a row are, in ascending order, exactly the
\* timestamps t with start_time < t < start_time + 0.75; an event exactly at
\* start_time is excluded.
C13_EventsStrictlyAfterStart ==
    EventsComputed =>
        \A p \in Rows :
            /\ IsAscending(df.licks_each_flash[p])
            /\ IsAscending(df.rewards_each_flash[p])
            /\ \A t \in EventTimes :
                   LET inside == /\ session.start_time[p] < t
                                 /\ t < session.start_time[p] + FlashWindow
                   IN  /\ Count(df.licks_each_flash[p], t) =
                              (IF inside THEN Count(session.licks, t) ELSE 0)
                       /\ Count(df.rewards_each_flash[p], t) =
                              (IF inside THEN Count(session.rewards, t) ELSE 0)

\* a flash with a lick exactly at its start, left out, and a later lick kept
C13_Witness ==
    /\ EventsComputed
    /\ \E p \in Rows :
           /\ session.start_time[p] \in Range(session.licks)
           /\ session.start_time[p] \notin Range(df.licks_each_flash[p])
           /\ df.licks_each_flash[p] # <<>>

\* C14: the collected lick and reward timestamps of a row are those strictly
\* greater than start_time and strictly less than start_time + 0.75;
\* timestamps equal to either bound are excluded and the result may be empty.
C14_EventsInOpenWindow ==
    EventsComputed =>
        \A p \in Rows :
            LET lo == session.start_time[p]
                hi == session.start_time[p] + FlashWindow
            IN  /\ Range(df.licks_each_flash[p]) =
                       {t \in Range(session.licks) : lo < t /\ t < hi}
                /\ Range(df.rewards_each_flash[p]) =
                       {t \in Range(session.rewards) : lo < t /\ t < hi}
                /\ {lo, hi} \cap Range(df.licks_each_flash[p]) = {}
                /\ {lo, hi} \cap Range(df.rewards_each_flash[p]) = {}

\* a flash with a reward exactly at the end of its window, left out, a lick
\* inside the window, kept, and a flash with no lick at all
C14_Witness ==
    /\ EventsComputed
    /\ \E p \in Rows :
           /\ session.start_time[p] + FlashWindow \in Range(session.rewards)
           /\ df.rewards_each_flash[p] = <<>>
           /\ df.licks_each_flash[p] # <<>>
    /\ \E p \in Rows : df.licks_each_flash[p] = <<>>

\* ---- the row index ----
\* C16: when the row index of the table is not contiguous from zero the
\* derivation aborts at the index_within_block pass and produces no output
\* table.
C16_NonContiguousIndexAborts ==
    ~IsContiguousIndex => ~WithinBlockComputed

\* ---- the inputs ----
\* C17: the derivation leaves its inputs unchanged: the session's table and
\* its lick, reward, change-time and running-speed arrays are the same after
\* every step (all writes go to the copy).
C17_InputsUnchanged == [][session' = session]_vars

\* a finished derivation that wrote all its columns to the copy
C17_Witness ==
    /\ pc = "done"
    /\ df.ref = "intermediate_df"
    /\ session.columns = InputColumns
    /\ Len(df.flash_running_speed) = Len(image_index)
    /\ \E p \in Rows : df.time_from_last_change[p] # NaN

\* ---- trace_average ----
\* the samples inside [start_time, stop_time)
InWindow ==
    {i \in 1..Len(args.values) :
        /\ args.start_time <= args.timestamps[i]
        /\ args.timestamps[i] < args.stop_time}

RECURSIVE SumOver(_, _)
SumOver(I, f) ==
    IF I = {} THEN 0
    ELSE LET i == CHOOSE x \in I : TRUE IN f[i] + SumOver(I \ {i}, f)

\* C15: trace_average is the arithmetic mean of exactly the values[i] with
\* start <= timestamps[i] < stop (a sample at start counts, a sample at stop
\* does not); it is NaN when no sample is in the window and the mean of all
\* values when the window covers the whole trace.
C15_TraceAverageIsWindowMean ==
    pc = "return" =>
        /\ InWindow = {} => ret.value = NaNFrac
        /\ InWindow # {} =>
               /\ ~ret.value.nan
               /\ ret.value.num * Cardinality(InWindow) =
                      SumOver(InWindow, args.values) * ret.value.den
        /\ (InWindow = 1..Len(args.values) /\ args.values # <<>>) =>
               ret.value.num * Len(args.values) =
                   SeqSum(args.values) * ret.value.den

\* a trace with a sample at start, inside, and a sample at stop, outside,
\* whose mean over the window is not the mean over the trace
C15_Witness ==
    /\ pc = "return"
    /\ \E i, j \in 1..Len(args.values) :
           /\ args.timestamps[i] = args.start_time
           /\ args.timestamps[j] = args.stop_time
           /\ i \in InWindow
           /\ j \notin InWindow
    /\ ~ret.value.nan
    /\ ret.value.den = 2
    /\ ret.value.num * Len(args.values) # SeqSum(args.values) * ret.value.den

\* ---- create_utils ----
\* C19: create_utils with model_type None defaults to PERISOMATIC_TYPE and
\* returns a Utils instance, never None and never an AllActiveUtils.  Stated
\* here for the descriptions that have an axon_type.
C19_NoneDefaultsToPerisomatic ==
    (/\ pc = "return"
     /\ args.fn = "create_utils"
     /\ args.model_type = "None"
     /\ args.description.has_axon_type) => ret = Ok("Utils")

\* ---- nearest_neuron_sampling_rate ----
\* C20: for every positive stimulus sampling rate hz the result is the least
\* common multiple of hz and 40000: a multiple of both, and no smaller
\* positive integer is a multiple of both.
C20_NearestRateIsLcm ==
    (pc = "return" /\ args.fn = "nearest_neuron_sampling_rate") =>
        /\ ret.value > 0
        /\ ret.value % args.hz = 0
        /\ ret.value % TargetHz = 0
        /\ \A k \in 1..args.hz :
               (k * TargetHz) % args.hz = 0 => k * TargetHz >= ret.value

\* a rate that shares a factor with 40000 without dividing it
C20_Witness ==
    /\ pc = "return"
    /\ args.fn = "nearest_neuron_sampling_rate"
    /\ args.hz = 48
    /\ ret.value = 120000

\* ---- blocks and image identity ----
IsShown(r) == image_index[r] # OmittedName

\* two adjacent blocks never show the same image
AdjacentBlocksDiffer ==
    \A i, j \in Rows :
        (IsShown(i) /\ IsShown(j) /\ block_index[j] = block_index[i] + 1)
            => image_index[i] # image_index[j]

\* the image shown after a run of omitted rows is the image shown before it
NoChangeAcrossOmission ==
    \A i, j \in Rows :
        (/\ i + 1 < j
         /\ IsShown(i)
         /\ IsShown(j)
         /\ \A k \in (i + 1)..(j - 1) : ~IsShown(k))
            => image_index[i] = image_index[j]

\* C21 as stated: every block is a maximal run of one stimulus identity: all
\* non-omitted rows of a block show the same image and two adjacent blocks
\* never show the same image.
C21_Original ==
    BlocksComputed => (OneImagePerBlock /\ AdjacentBlocksDiffer)

\* C21 amended: a block is bounded by the flagged changes: the row that
\* starts a block after row 0 and the row before it are both shown and
\* differ in image.  In the tables where no image differs across an omission
\* all non-omitted rows of a block show the same image and two adjacent
\* blocks never show the same image.
C21_BlocksBoundedByFlaggedChanges ==
    BlocksComputed =>
        /\ \A r \in Rows \ {1} :
               block_index[r] # block_index[r - 1] =>
                   /\ IsShown(r)
                   /\ IsShown(r - 1)
                   /\ image_index[r] # image_index[r - 1]
        /\ NoChangeAcrossOmission => (OneImagePerBlock /\ AdjacentBlocksDiffer)

\* a block with an omission between two flashes of one image, followed by a
\* block of another image
C21_Witness ==
    /\ BlocksComputed
    /\ NoChangeAcrossOmission
    /\ \E r \in Rows :
           /\ r + 3 \in Rows
           /\ IsShown(r)
           /\ ~IsShown(r + 1)
           /\ image_index[r + 2] = image_index[r]
           /\ block_index[r + 2] = block_index[r]
           /\ block_index[r + 3] = block_index[r] + 1

\* ---- the sign of time_from_last ----
\* C22: for ascending event times every non-missing entry that time_from_last
\* returns is strictly positive: never zero (an event exactly at the query
\* time is skipped) and never negative.
C22_TimeFromLastIsPositive ==
    (pc = "return" /\ ret.err = "none") =>
        \A k \in Flashes : ~ret.value[k].nan => ret.value[k].v > 0

\* two query times: one before every event, missing, and one with an event
\* exactly at it, measured from the event before
C22_Witness ==
    /\ pc = "return"
    /\ ret.err = "none"
    /\ \E k, m \in Flashes :
           /\ ret.value[k].nan
           /\ args.flash_times[m] = args.other_times[Len(args.other_times)]
           /\ ~ret.value[m].nan
           /\ ret.value[m].v > 0

\* ---- run_passive_fit ----
PassiveFitReturned == pc = "return" /\ ret.err = "none"

\* C23: whenever run_passive_fit has cap-check sweeps and returns,
\* fit_for_next_step is one of fit_1, fit_2, fit_3 and its err is greater
\* neither than fit_1's nor than fit_2's; fit_2 is selected only when its err
\* is strictly lower than both fit_1's and fit_3's; and the returned data
\* always contains ra, cm1 and cm2.
C23_SelectedFitHasLowError ==
    PassiveFitReturned =>
        /\ {"ra", "cm1", "cm2"} \subseteq DOMAIN ret.value
        /\ args.cap_check_sweeps > 0 =>
               LET d == ret.value
                   selected == d.fit_for_next_step
               IN  /\ selected \in {"fit_1", "fit_2", "fit_3"}
                   /\ d[selected].err <= d.fit_1.err
                   /\ d[selected].err <= d.fit_2.err
                   /\ selected = "fit_2" =>
                          /\ d.fit_2.err < d.fit_1.err
                          /\ d.fit_2.err < d.fit_3.err

\* the fixed-Ri fit beats the original one and ties with the electrode fit,
\* which is selected, for a spiny cell
C23_Witness ==
    /\ PassiveFitReturned
    /\ args.cap_check_sweeps > 0
    /\ args.is_spiny
    /\ ret.value.fit_2.err < ret.value.fit_1.err
    /\ ret.value.fit_2.err = ret.value.fit_3.err
    /\ ret.value.fit_for_next_step = "fit_3"
    /\ ret.value.ra = ret.value.fit_3.Ri
    /\ ret.value.cm2 = Frac(2 * ret.value.fit_3.Cm - 1, 1)

====
